---- MODULE Spec2Model ----
(***************************************************************************)
(* Course outline engine of learning_sequences: the canonical outline      *)
(* store (LearningContext, CourseSection, LearningSequence,                *)
(* CourseSectionSequence rows), the cache in front of get_course_outline,  *)
(* the transactional replace_course_outline, and the derivation of a       *)
(* user's outline through the outline processors.                          *)
(*                                                                         *)
(* Three specifications share the definitions:                             *)
(*   Spec      calls of the API one after the other (each call one step);  *)
(*   SpecConc  writers and a reader of one course, statement by statement, *)
(*             on a read-committed store;                                  *)
(*   SpecUser  get_user_course_outline for a user at a time.               *)
(***************************************************************************)
EXTENDS Integers, Sequences, FiniteSets, TLC

VARIABLES
    db,          \* committed rows of the four tables
    next_id,     \* BigAutoField counter of CourseSection (never rolled back)
    cache,       \* TieredCache: set of [key, value]
    calls,       \* number of replace_course_outline calls made so far
    lastOp,      \* ghost: the API call that made the current state
    result,      \* outcome of the last get_course_outline call
    lastWrite,   \* ghost: input and outcome of the last replace_course_outline
    published,   \* ghost: outline of the last committed replace (set, <= 1)
    omitted,     \* ghost: keys the last commit dropped from its predecessor
    wpc, wOutline, wWork, wBegin,   \* SpecConc: writers
    rpc, rCtx, rJoins, rSeen,       \* SpecConc: reader
    user, at_time, dates, build,    \* SpecUser: inputs
    userResult, invoked,            \* SpecUser: outcome, processor calls made
    procOutline,                    \* SpecProc: the outline a function is given
    procCall, procResult            \* SpecProc: the function applied, its result

engineVars == <<db, next_id, cache>>
seqVars == <<calls, lastOp, result, lastWrite, published, omitted>>
writerVars == <<wpc, wOutline, wWork, wBegin>>
readerVars == <<rpc, rCtx, rJoins, rSeen>>
concVars == <<writerVars, readerVars>>
userVars == <<user, at_time, dates, build, userResult, invoked>>
procVars == <<procOutline, procCall, procResult>>
vars == <<engineVars, seqVars, concVars, userVars, procVars>>

----------------------------------------------------------------------------
(* Bounds of the model *)

\* replace_course_outline calls in one behaviour of Spec
MaxWrites == 3

\* replace_course_outline calls in one behaviour of SpecConc
MaxConcWrites == 2

----------------------------------------------------------------------------
(* Keys and values *)

CourseA == "course-v1:A"
OldMongo == "Org/Course/Run"
CourseKeys == {CourseA, OldMongo}

\* CourseKey.deprecated
deprecated(course_key) == course_key = OldMongo

Versions == {"V1", "V2"}
SectionKeys == {"A", "B"}
SequenceKeys == {"S1", "S2"}

LearningSequenceData(usage_key, title) ==
    [usage_key |-> usage_key, title |-> title]

CourseSectionData(usage_key, title, sequences) ==
    [usage_key |-> usage_key, title |-> title, sequences |-> sequences]

CourseItemVisibilityData(hide_from_toc, visible_to_staff_only) ==
    [hide_from_toc |-> hide_from_toc,
     visible_to_staff_only |-> visible_to_staff_only]

\* sequences is the dict usage_key -> LearningSequenceData, held as the set
\* of its values (one per usage_key).
CourseOutlineData(course_key, title, published_at, published_version, sections, sequences, visibility) ==
    [course_key |-> course_key, title |-> title,
     published_at |-> published_at, published_version |-> published_version,
     sections |-> sections, sequences |-> sequences,
     visibility |-> visibility]

Range(s) == {s[i] : i \in 1..Len(s)}

\* keys of the dict outline.sequences
SequenceIndexKeys(outline) == {q.usage_key : q \in outline.sequences}

SectionUsageKeys(outline) == {s.usage_key : s \in Range(outline.sections)}

\* usage keys of the sequences listed inside the sections
ListedSequenceKeys(outline) ==
    UNION {{q.usage_key : q \in Range(s.sequences)} : s \in Range(outline.sections)}

----------------------------------------------------------------------------
(* The store: rows of models.py.  A foreign key to LearningContext is held *)
(* as its unique context_key, one to LearningSequence as its usage_key     *)
(* (unique within the context); CourseSection rows carry their id, which   *)
(* get_course_outline uses to attach the join rows.                        *)

EmptyDb ==
    [learning_context |-> {}, sections |-> {}, sequences |-> {},
     section_sequences |-> {}]

LearningContext(context_key, title, published_at, published_version) ==
    [context_key |-> context_key, title |-> title,
     published_at |-> published_at, published_version |-> published_version]

LearningSequence(learning_context, usage_key, title) ==
    [learning_context |-> learning_context, usage_key |-> usage_key,
     title |-> title]

CourseSection(id, learning_context, usage_key, title, order, hide_from_toc, visible_to_staff_only) ==
    [id |-> id, learning_context |-> learning_context,
     usage_key |-> usage_key, title |-> title, order |-> order,
     hide_from_toc |-> hide_from_toc,
     visible_to_staff_only |-> visible_to_staff_only]

CourseSectionSequence(learning_context, section, sequence, order, hide_from_toc, visible_to_staff_only) ==
    [learning_context |-> learning_context, section |-> section,
     sequence |-> sequence, order |-> order,
     hide_from_toc |-> hide_from_toc,
     visible_to_staff_only |-> visible_to_staff_only]

\* the rows of one learning context
RowsOf(store, course_key) ==
    [learning_context |->
        {c \in store.learning_context : c.context_key = course_key},
     sections |-> {s \in store.sections : s.learning_context = course_key},
     sequences |-> {q \in store.sequences : q.learning_context = course_key},
     section_sequences |->
        {j \in store.section_sequences : j.learning_context = course_key}]

----------------------------------------------------------------------------
(* replace_course_outline: the write path *)

_update_learning_context(store, course_outline) ==
    [store EXCEPT !.learning_context =
        {c \in @ : c.context_key # course_outline.course_key}
        \cup {LearningContext(course_outline.course_key, course_outline.title,
                              course_outline.published_at,
                              course_outline.published_version)}]

\* Mutant of WipeSectionSequences: the join rows of every learning context
\* are deleted, not only those of learning_context.section_sequences.
WipeEverySectionSequence(store, course_key) ==
    [store EXCEPT !.section_sequences = {}]

\* learning_context.section_sequences.all().delete()
WipeSectionSequences(store, course_key) ==
    [store EXCEPT !.section_sequences =
        {j \in @ : j.learning_context # course_key}]

\* Mutant of UpsertSections: the defaults (order, visibility flags) are
\* applied only to a row that already exists; a created row keeps the
\* model's field defaults.
RECURSIVE UpsertSectionsDefaultsOnUpdate(_, _, _, _)
UpsertSectionsDefaultsOnUpdate(rows, nid, course_outline, i) ==
    IF i > Len(course_outline.sections)
    THEN [rows |-> rows, next_id |-> nid]
    ELSE LET section_data == course_outline.sections[i]
             found == {r \in rows :
                          /\ r.learning_context = course_outline.course_key
                          /\ r.usage_key = section_data.usage_key}
             row == IF found = {}
                    THEN CourseSection(nid, course_outline.course_key,
                             section_data.usage_key, section_data.title, 0,
                             FALSE, FALSE)
                    ELSE CourseSection((CHOOSE r \in found : TRUE).id,
                             course_outline.course_key,
                             section_data.usage_key, section_data.title, i - 1,
                             section_data.usage_key \in course_outline.visibility.hide_from_toc,
                             section_data.usage_key \in course_outline.visibility.visible_to_staff_only)
         IN  UpsertSectionsDefaultsOnUpdate((rows \ found) \cup {row},
                            IF found = {} THEN nid + 1 ELSE nid,
                            course_outline, i + 1)

\* the update_or_create loop of _update_sections, from position i on;
\* a created row takes the next id
RECURSIVE UpsertSections(_, _, _, _)
UpsertSections(rows, nid, course_outline, i) ==
    IF i > Len(course_outline.sections)
    THEN [rows |-> rows, next_id |-> nid]
    ELSE LET section_data == course_outline.sections[i]
             found == {r \in rows :
                          /\ r.learning_context = course_outline.course_key
                          /\ r.usage_key = section_data.usage_key}
             id == IF found = {} THEN nid ELSE (CHOOSE r \in found : TRUE).id
             row == CourseSection(id, course_outline.course_key,
                        section_data.usage_key, section_data.title, i - 1,
                        section_data.usage_key \in course_outline.visibility.hide_from_toc,
                        section_data.usage_key \in course_outline.visibility.visible_to_staff_only)
         IN  UpsertSections((rows \ found) \cup {row},
                            IF found = {} THEN nid + 1 ELSE nid,
                            course_outline, i + 1)

\* deleting a CourseSection cascades to its join rows (on_delete=CASCADE)
_update_sections(store, nid, course_outline) ==
    LET up == UpsertSections(store.sections, nid, course_outline, 1)
        gone == {r \in up.rows :
                    /\ r.learning_context = course_outline.course_key
                    /\ r.usage_key \notin SectionUsageKeys(course_outline)}
    IN  [db |-> [store EXCEPT
                    !.sections = up.rows \ gone,
                    !.section_sequences =
                        {j \in @ : ~(\E r \in gone : j.section = r.id)}],
         next_id |-> up.next_id]

\* the (order, section, sequence) triples the nested loops visit, in order
RECURSIVE Listed(_, _)
Listed(sections, i) ==
    IF i > Len(sections) THEN <<>>
    ELSE [k \in 1..Len(sections[i].sequences) |->
             [order |-> i - 1, section |-> sections[i].usage_key,
              sequence |-> sections[i].sequences[k]]]
         \o Listed(sections, i + 1)

RECURSIVE UpsertSequences(_, _, _, _)
UpsertSequences(rows, course_key, listed, i) ==
    IF i > Len(listed) THEN rows
    ELSE LET sequence_data == listed[i].sequence
             found == {r \in rows : /\ r.learning_context = course_key
                                    /\ r.usage_key = sequence_data.usage_key}
         IN  UpsertSequences(
                 (rows \ found) \cup
                     {LearningSequence(course_key, sequence_data.usage_key,
                                       sequence_data.title)},
                 course_key, listed, i + 1)

\* Mutant of _update_sequences: the rows are upserted, none is deleted.
UpdateSequencesKeepStale(store, course_outline) ==
    [store EXCEPT !.sequences =
        UpsertSequences(@, course_outline.course_key,
                        Listed(course_outline.sections, 1), 1)]

\* deleting a LearningSequence cascades to its join rows
_update_sequences(store, course_outline) ==
    LET up == UpsertSequences(store.sequences, course_outline.course_key,
                              Listed(course_outline.sections, 1), 1)
        gone == {r \in up :
                    /\ r.learning_context = course_outline.course_key
                    /\ r.usage_key \notin SequenceIndexKeys(course_outline)}
    IN  [store EXCEPT
            !.sequences = up \ gone,
            !.section_sequences =
                {j \in @ : ~(\E r \in gone :
                                /\ j.learning_context = r.learning_context
                                /\ j.sequence = r.usage_key)}]

\* the update_or_create loop of _update_course_section_sequences;
\* section_models[...] or sequence_models[...] raises KeyError on a key
\* that has no row
RECURSIVE UpsertSectionSequences(_, _, _, _)
UpsertSectionSequences(store, course_outline, listed, i) ==
    IF i > Len(listed) THEN [ok |-> TRUE, db |-> store]
    ELSE LET course_key == course_outline.course_key
             section_models == {r \in store.sections :
                                   /\ r.learning_context = course_key
                                   /\ r.usage_key = listed[i].section}
             sequence_models == {r \in store.sequences :
                                    /\ r.learning_context = course_key
                                    /\ r.usage_key = listed[i].sequence.usage_key}
         IN  IF section_models = {} \/ sequence_models = {}
             THEN [ok |-> FALSE, db |-> store]
             ELSE LET section == (CHOOSE r \in section_models : TRUE).id
                      sequence == listed[i].sequence.usage_key
                      found == {j \in store.section_sequences :
                                   /\ j.learning_context = course_key
                                   /\ j.section = section
                                   /\ j.sequence = sequence}
                      row == CourseSectionSequence(course_key, section, sequence,
                                 listed[i].order,
                                 sequence \in course_outline.visibility.hide_from_toc,
                                 sequence \in course_outline.visibility.visible_to_staff_only)
                  IN  UpsertSectionSequences(
                          [store EXCEPT !.section_sequences = (@ \ found) \cup {row}],
                          course_outline, listed, i + 1)

_update_course_section_sequences(store, course_outline) ==
    UpsertSectionSequences(store, course_outline,
                           Listed(course_outline.sections, 1), 1)

\* The statements inside `with transaction.atomic()`, in order.
Statements ==
    <<"learning_context", "wipe", "sections", "sequences", "section_sequences">>

\* one statement of the transaction on the transaction's view of the rows
Statement(name, work, nid, course_outline) ==
    CASE name = "learning_context" ->
            [ok |-> TRUE, db |-> _update_learning_context(work, course_outline),
             next_id |-> nid]
      [] name = "wipe" ->
            [ok |-> TRUE,
             db |-> WipeSectionSequences(work, course_outline.course_key),
             next_id |-> nid]
      [] name = "sections" ->
            [ok |-> TRUE] @@ _update_sections(work, nid, course_outline)
      [] name = "sequences" ->
            [ok |-> TRUE, db |-> _update_sequences(work, course_outline),
             next_id |-> nid]
      [] name = "section_sequences" ->
            [next_id |-> nid]
            @@ _update_course_section_sequences(work, course_outline)

\* the statements from the i-th on; fault is the position of a statement
\* on which the database raises (0: none does)
RECURSIVE RunStatements(_, _, _, _, _)
RunStatements(i, work, nid, course_outline, fault) ==
    IF i > Len(Statements) THEN [ok |-> TRUE, db |-> work, next_id |-> nid]
    ELSE IF fault = i THEN [ok |-> FALSE, db |-> work, next_id |-> nid]
    ELSE LET r == Statement(Statements[i], work, nid, course_outline)
         IN  IF r.ok
             THEN RunStatements(i + 1, r.db, r.next_id, course_outline, fault)
             ELSE r

\* Mutant of transaction_atomic: no transaction, every statement is
\* committed as it runs and an exception undoes nothing.
transaction_autocommit(before, after, ok) == after

\* leaving `with transaction.atomic()`: commit, or roll back on an exception
transaction_atomic(before, after, ok) == IF ok THEN after ELSE before

replace_course_outline(store, nid, course_outline, fault) ==
    IF deprecated(course_outline.course_key)
    THEN [status |-> "ValueError", db |-> store, next_id |-> nid]
    ELSE LET r == RunStatements(1, store, nid, course_outline, fault)
         IN  [status |-> IF r.ok THEN "ok"
                         ELSE IF fault # 0 THEN "DatabaseError" ELSE "KeyError",
              db |-> transaction_atomic(store, r.db, r.ok),
              next_id |-> r.next_id]

----------------------------------------------------------------------------
(* get_course_outline: the read path *)

\* a queryset .order_by('order'): the rows in any order the database may
\* return them in, rows of equal order in either order
order_by(rows) ==
    {s \in [1..Cardinality(rows) -> rows] :
        /\ \A i, j \in 1..Cardinality(rows) : i # j => s[i] # s[j]
        /\ \A i, j \in 1..Cardinality(rows) : i < j => s[i].order <= s[j].order}

\* CourseSection.objects.filter(learning_context=...).order_by('order')
section_models(store, course_key) ==
    order_by({r \in store.sections : r.learning_context = course_key})

\* CourseSectionSequence rows of the context with their sequence row
\* attached (select_related('sequence')), ordered by 'order'
section_sequence_models(store, course_key) ==
    order_by({[section_id |-> j.section, order |-> j.order,
               hide_from_toc |-> j.hide_from_toc,
               visible_to_staff_only |-> j.visible_to_staff_only,
               sequence |-> CHOOSE q \in store.sequences :
                               /\ q.learning_context = course_key
                               /\ q.usage_key = j.sequence]
              : j \in {x \in store.section_sequences :
                          x.learning_context = course_key}})

\* sec_ids_to_sequence_list[section_id]
SequenceListOf(sec_seq_models, section_id) ==
    LET OfSection(m) == m.section_id = section_id
        mine == SelectSeq(sec_seq_models, OfSection)
    IN  [k \in 1..Len(mine) |->
            LearningSequenceData(mine[k].sequence.usage_key,
                                 mine[k].sequence.title)]

\* Mutant of seq_keys_to_sequence: a sequence enters the index only when
\* its join row has no visibility flag set.
IndexOfUnflagged(sec_seq_models) ==
    {LearningSequenceData(m.sequence.usage_key, m.sequence.title)
        : m \in {x \in Range(sec_seq_models) :
                    ~x.hide_from_toc /\ ~x.visible_to_staff_only}}

\* seq_keys_to_sequence (lines 61, 65-71): an entry for the sequence of
\* every join row fetched
seq_keys_to_sequence(sec_seq_models) ==
    {LearningSequenceData(m.sequence.usage_key, m.sequence.title)
        : m \in Range(sec_seq_models)}

\* lines 58-103: the outline built from the fetched rows
OutlineFromModels(learning_context, sec_models, sec_seq_models) ==
    CourseOutlineData(
        learning_context.context_key, learning_context.title,
        learning_context.published_at, learning_context.published_version,
        [k \in 1..Len(sec_models) |->
            CourseSectionData(sec_models[k].usage_key, sec_models[k].title,
                              SequenceListOf(sec_seq_models, sec_models[k].id))],
        seq_keys_to_sequence(sec_seq_models),
        CourseItemVisibilityData(
            {m.sequence.usage_key : m \in {x \in Range(sec_seq_models) : x.hide_from_toc}}
            \cup {m.usage_key : m \in {x \in Range(sec_models) : x.hide_from_toc}},
            {m.sequence.usage_key : m \in {x \in Range(sec_seq_models) : x.visible_to_staff_only}}
            \cup {m.usage_key : m \in {x \in Range(sec_models) : x.visible_to_staff_only}}))

\* every outline a fetch of the stored rows of a context can build
FetchOutlines(store, learning_context) ==
    {OutlineFromModels(learning_context, sm, ssm) :
        sm \in section_models(store, learning_context.context_key),
        ssm \in section_sequence_models(store, learning_context.context_key)}

cache_key(learning_context) ==
    <<learning_context.context_key, learning_context.published_version>>

\* TieredCache.get_cached_response: the entries found under the key
get_cached_response(entries, key) == {e \in entries : e.key = key}

\* TieredCache.set_all_tiers
set_all_tiers(entries, key, value) ==
    {e \in entries : e.key # key} \cup {[key |-> key, value |-> value]}

Response(status, value, cached) ==
    [status |-> status, value |-> value, cached |-> cached]

\* Mutant of _get_learning_context_for_outline: a key without a row gets a
\* context of its own (get_or_create) instead of DoesNotExist.
MissingContextCreated(store, course_key) ==
    LET found == {c \in store.learning_context : c.context_key = course_key}
    IN  IF deprecated(course_key) THEN [status |-> "ValueError", found |-> {}]
        ELSE IF found = {}
        THEN [status |-> "ok",
              found |-> {LearningContext(course_key, "", 0, "V0")}]
        ELSE [status |-> "ok", found |-> found]

\* Mutant of _get_learning_context_for_outline: course_key.deprecated is
\* not looked at, the key is looked up like any other.
DeprecatedLookedUp(store, course_key) ==
    LET found == {c \in store.learning_context : c.context_key = course_key}
    IN  IF found = {} THEN [status |-> "DoesNotExist", found |-> {}]
        ELSE [status |-> "ok", found |-> found]

\* _get_learning_context_for_outline(course_key): ValueError on a
\* deprecated key, CourseOutlineData.DoesNotExist when no LearningContext
\* row has the key, else the row
_get_learning_context_for_outline(store, course_key) ==
    LET found == {c \in store.learning_context : c.context_key = course_key}
    IN  IF deprecated(course_key) THEN [status |-> "ValueError", found |-> {}]
        ELSE IF found = {} THEN [status |-> "DoesNotExist", found |-> {}]
        ELSE [status |-> "ok", found |-> found]

\* the outcomes of get_course_outline(course_key) on a store and a cache:
\* pairs of a response and the cache it leaves
get_course_outline(store, entries, course_key) ==
    LET ctx == _get_learning_context_for_outline(store, course_key)
    IN  IF ctx.status # "ok"
        THEN {[response |-> Response(ctx.status, {}, FALSE), cache |-> entries]}
        ELSE LET learning_context == CHOOSE c \in ctx.found : TRUE
                 hit == get_cached_response(entries, cache_key(learning_context))
             IN  IF hit # {}
                 THEN {[response |-> Response("ok", {e.value : e \in hit}, TRUE),
                        cache |-> entries]}
                 ELSE {[response |-> Response("ok", {outline_data}, FALSE),
                        cache |-> set_all_tiers(entries, cache_key(learning_context),
                                                outline_data)]
                       : outline_data \in FetchOutlines(store, learning_context)}

----------------------------------------------------------------------------
(* Inputs *)

S1 == LearningSequenceData("S1", "Intro")
S1r == LearningSequenceData("S1", "Intro (renamed)")
S2 == LearningSequenceData("S2", "Quiz")
NoVisibility == CourseItemVisibilityData({}, {})

\* The shapes of the outlines written: sections, sequences index,
\* visibility.
\* two sequences in one section, and an empty section
ShapeFull ==
    [sections |-> <<CourseSectionData("A", "Week 1", <<S1, S2>>),
                    CourseSectionData("B", "Week 2", <<>>)>>,
     sequences |-> {S1, S2}, visibility |-> NoVisibility]

\* section B and sequence S2 gone
ShapeShort ==
    [sections |-> <<CourseSectionData("A", "Week 1", <<S1>>)>>,
     sequences |-> {S1}, visibility |-> NoVisibility]

\* sections reordered; B hidden from the TOC, S1 for staff only
ShapeReordered ==
    [sections |-> <<CourseSectionData("B", "Week 2", <<S2>>),
                    CourseSectionData("A", "Week 1", <<S1>>)>>,
     sequences |-> {S1, S2},
     visibility |-> CourseItemVisibilityData({"B"}, {"S1"})]

\* S2 only in the index (hidden from the TOC), S1 renamed
ShapeIndexOnly ==
    [sections |-> <<CourseSectionData("A", "Week 1", <<S1r>>)>>,
     sequences |-> {S1r, S2},
     visibility |-> CourseItemVisibilityData({"S2"}, {})]

\* S2 listed in a section but missing from the index
ShapeBroken ==
    [sections |-> <<CourseSectionData("A", "Week 1", <<S1, S2>>)>>,
     sequences |-> {S1}, visibility |-> NoVisibility]

Shapes == {ShapeFull, ShapeShort, ShapeReordered, ShapeIndexOnly, ShapeBroken}

\* the time of the publish that made a version
PublishedAt(version) ==
    CASE version = "V0" -> 0 [] version = "V1" -> 1 [] version = "V2" -> 2

\* the outline of a shape for any course key
OutlineFor(course_key, version, shape) ==
    CourseOutlineData(course_key, "Course", PublishedAt(version), version,
                      shape.sections, shape.sequences, shape.visibility)

OutlineOf(version, shape) ==
    CourseOutlineData(CourseA, "Course", PublishedAt(version), version,
                      shape.sections, shape.sequences, shape.visibility)

Outlines ==
    {OutlineOf(v, w) : v \in Versions, w \in Shapes}

\* positions of the statement a database error may hit (0: none)
Faults == 0..Len(Statements)

\* data.py: published_version "will change to something different every
\* time the underlying course is modified": a publish either repeats the
\* stored outline or carries another version than the stored one
PublishedVersionChanged(course_outline) ==
    \/ course_outline \in published
    \/ \A p \in published :
          p.published_version # course_outline.published_version

----------------------------------------------------------------------------
(* Ghost bookkeeping *)

NoResponse == [course_key |-> CourseA] @@ Response("none", {}, FALSE)
NoWrite == [outline |-> {}, status |-> "none", repeated |-> FALSE]
NothingOmitted == [sections |-> {}, sequences |-> {}]

\* the sections of the outlines in prev that course_outline omits, and the
\* sequences of those sections that course_outline holds nowhere
OmittedBy(prev, course_outline) ==
    LET secs == UNION {{s \in Range(p.sections) :
                           s.usage_key \notin SectionUsageKeys(course_outline)}
                       : p \in prev}
    IN  [sections |-> {s.usage_key : s \in secs},
         sequences |->
            UNION {{q.usage_key : q \in Range(s.sequences)} : s \in secs}
            \ (ListedSequenceKeys(course_outline)
               \cup SequenceIndexKeys(course_outline))]

Writers == {"w1", "w2"}

IdleConc ==
    /\ wpc = [w \in Writers |-> "idle"]
    /\ wOutline = [w \in Writers |-> {}]
    /\ wWork = [w \in Writers |-> EmptyDb]
    /\ wBegin = [w \in Writers |-> EmptyDb]
    /\ rpc = "idle" /\ rCtx = {} /\ rJoins = <<>> /\ rSeen = {}

NoUserResult == [status |-> "none", value |-> {}]

IdleUser ==
    /\ user = {} /\ at_time = 0 /\ dates = {} /\ build = "none"
    /\ userResult = NoUserResult /\ invoked = {}

NoCall == [name |-> "none", usage_keys |-> {}]
NoResult == [status |-> "none", value |-> {}]

IdleProc == procOutline = {} /\ procCall = NoCall /\ procResult = NoResult

----------------------------------------------------------------------------
(* Spec: the API called one call after the other *)

Init ==
    /\ db = EmptyDb /\ next_id = 1 /\ cache = {}
    /\ calls = 0 /\ lastOp = "init" /\ result = NoResponse
    /\ lastWrite = NoWrite /\ published = {} /\ omitted = NothingOmitted
    /\ IdleConc /\ IdleUser /\ IdleProc

ReplaceCourseOutline ==
    \E course_outline \in Outlines, fault \in Faults :
        /\ calls < MaxWrites
        /\ PublishedVersionChanged(course_outline)
        /\ LET r == replace_course_outline(db, next_id, course_outline, fault)
           IN  /\ db' = r.db
               /\ next_id' = r.next_id
               /\ lastWrite' =
                    [outline |-> {course_outline}, status |-> r.status,
                     repeated |-> /\ lastOp = "replace"
                                  /\ lastWrite.outline = {course_outline}
                                  /\ lastWrite.status = r.status]
               /\ published' = IF r.status = "ok" THEN {course_outline}
                               ELSE published
               /\ omitted' = IF r.status = "ok"
                             THEN OmittedBy(published, course_outline)
                             ELSE omitted
        /\ calls' = calls + 1
        /\ lastOp' = "replace"
        /\ result' = NoResponse
        /\ UNCHANGED <<cache, concVars, userVars, procVars>>

GetCourseOutline ==
    \E course_key \in CourseKeys :
        \E out \in get_course_outline(db, cache, course_key) :
            /\ result' = [course_key |-> course_key] @@ out.response
            /\ cache' = out.cache
            /\ lastOp' = "get"
            /\ UNCHANGED <<db, next_id, calls, lastWrite, published, omitted,
                           concVars, userVars, procVars>>

\* an entry leaves the cache (its 300 s are over, or a tier evicts it)
CacheExpire ==
    \E e \in cache :
        /\ cache' = cache \ {e}
        /\ UNCHANGED <<db, next_id, seqVars, concVars, userVars, procVars>>

Next == ReplaceCourseOutline \/ GetCourseOutline \/ CacheExpire

Spec == Init /\ [][Next]_vars

----------------------------------------------------------------------------
(* Claims on Spec *)

\* C1 (as claimed): a get_course_outline after replace_course_outline(O),
\* with no later write, returns an outline whose sections (with their
\* sequence lists), sequences index and visibility sets equal those of O.
C1_RoundTrip ==
    (lastOp = "get" /\ result.status = "ok") =>
        \A o \in published, r \in result.value :
            /\ r.sections = o.sections
            /\ r.sequences = o.sequences
            /\ r.visibility = o.visibility

\* C4 (as claimed): get_course_outline never returns a cached outline whose
\* content was stored by another publish than the most recently committed
\* one: an outline served from the cache is one the stored rows yield.
C4_NoStaleCacheServed ==
    (lastOp = "get" /\ result.cached) =>
        \A c \in db.learning_context :
            c.context_key = result.course_key =>
                result.value \subseteq FetchOutlines(db, c)

\* C5 (as claimed): once a later write has omitted a section of the outline
\* stored before it, no get_course_outline returns that section, nor (in a
\* section or in the index) the sequences only that section contained.
C5_DeletionMonotone ==
    (lastOp = "get" /\ result.status = "ok") =>
        \A r \in result.value :
            /\ SectionUsageKeys(r) \cap omitted.sections = {}
            /\ (ListedSequenceKeys(r) \cup SequenceIndexKeys(r))
                   \cap omitted.sequences = {}

\* C6 (as claimed): every get_course_outline returns an outline, or an
\* error, that the engine without a cache (every lookup a miss) returns on
\* the same calls.
C6_CacheTransparent ==
    lastOp = "get" =>
        \E out \in get_course_outline(db, {}, result.course_key) :
            /\ out.response.status = result.status
            /\ out.response.value = result.value

\* C7: a replace_course_outline(O) called right after a
\* replace_course_outline(O) with the same outcome leaves the stored rows,
\* and so every outcome of get_course_outline, as the first call left them.
C7_WriteIdempotent ==
    [][(calls' # calls /\ lastWrite'.repeated) =>
        /\ db' = db
        /\ \A k \in CourseKeys :
              get_course_outline(db', cache', k) = get_course_outline(db, cache, k)]_vars

\* C7 witness: an outline with sections was written twice in a row on top
\* of another outline's rows.
C7_Witness ==
    /\ lastWrite.repeated /\ lastWrite.status = "ok" /\ calls = 3
    /\ \E o \in published : Len(o.sections) = 2

----------------------------------------------------------------------------
(* SpecConc: two writers and a reader of one course, one statement a step. *)
(* The store is read-committed: the statements of an open transaction work *)
(* on the transaction's own view (wWork), which other sessions see only    *)
(* once it is committed.                                                   *)

\* the outlines the writers publish: each content that can be committed
\* has a version of its own
ConcOutlines ==
    {OutlineOf("V1", ShapeFull), OutlineOf("V2", ShapeIndexOnly),
     OutlineOf("V2", ShapeBroken)}

\* update_or_create does select_for_update().get() (and, for a new row, an
\* INSERT on the unique context_key) inside the transaction: the
\* LearningContext row of the course is locked from the first statement to
\* the end of the transaction, and a second writer waits there.
InTransaction == (Range(Statements) \ {"learning_context"}) \cup {"commit"}

\* Mutant of RowLockFree: the context row is read without a lock, so a
\* second transaction starts on the rows the first has not yet committed to.
RowLockIgnored(pcs, w) == TRUE

\* the lock is on the LearningContext row of the writer's course: a writer
\* of another course does not wait for it
RowLockFree(pcs, w) ==
    \A v \in Writers \ {w} :
        pcs[v] \in InTransaction =>
            \A o \in wOutline[w], p \in wOutline[v] :
                o.course_key # p.course_key

\* the committed rows once the open transaction's changes are applied: the
\* rows it deleted from the rows it began on (begin) leave, the rows it
\* wrote enter; rows it did not touch stay as committed
MergeRows(committed, begin, work) ==
    [t \in DOMAIN committed |->
        (committed[t] \ (begin[t] \ work[t])) \cup (work[t] \ begin[t])]

NextStatement(name) ==
    IF name = "section_sequences" THEN "commit"
    ELSE Statements[1 + CHOOSE i \in 1..Len(Statements) : Statements[i] = name]

\* the store is empty, or holds an outline published earlier
InitConc ==
    /\ \E r \in {[db |-> EmptyDb, next_id |-> 1],
                 replace_course_outline(EmptyDb, 1, OutlineOf("V0", ShapeReordered), 0)} :
          db = r.db /\ next_id = r.next_id
    /\ cache = {}
    /\ calls = 0 /\ lastOp = "init" /\ result = NoResponse
    /\ lastWrite = NoWrite /\ published = {} /\ omitted = NothingOmitted
    /\ IdleConc /\ IdleUser /\ IdleProc

\* replace_course_outline is called: lines 216-222
WriterCall(w) ==
    \E course_outline \in ConcOutlines :
        /\ wpc[w] = "idle"
        /\ calls < MaxConcWrites
        /\ calls' = calls + 1
        /\ wOutline' = [wOutline EXCEPT ![w] = {course_outline}]
        /\ wpc' = [wpc EXCEPT ![w] =
                      IF deprecated(course_outline.course_key) THEN "idle"
                      ELSE "learning_context"]
        /\ UNCHANGED <<engineVars, lastOp, result, lastWrite, published,
                       omitted, wWork, wBegin, readerVars, userVars, procVars>>

\* one statement of the transaction runs
WriterStatement(w) ==
    /\ wpc[w] \in Range(Statements)
    /\ wpc[w] = "learning_context" => RowLockFree(wpc, w)
    /\ LET course_outline == CHOOSE o \in wOutline[w] : TRUE
           view == IF wpc[w] = "learning_context" THEN db ELSE wWork[w]
           r == Statement(wpc[w], view, next_id, course_outline)
       IN  /\ next_id' = r.next_id
           /\ wWork' = [wWork EXCEPT ![w] = r.db]
           /\ wBegin' = [wBegin EXCEPT ![w] =
                            IF wpc[w] = "learning_context" THEN db ELSE @]
           /\ IF r.ok
              THEN /\ wpc' = [wpc EXCEPT ![w] = NextStatement(@)]
                   /\ db' = db
              ELSE \* KeyError leaves the with block: rollback
                   /\ wpc' = [wpc EXCEPT ![w] = "raised"]
                   /\ db' = transaction_atomic(
                              db, MergeRows(db, wBegin'[w], r.db), FALSE)
    /\ UNCHANGED <<cache, seqVars, wOutline, readerVars, userVars, procVars>>

\* the database raises on the statement about to run: rollback
WriterFault(w) ==
    /\ wpc[w] \in Range(Statements)
    /\ wpc[w] = "learning_context" => RowLockFree(wpc, w)
    /\ wpc' = [wpc EXCEPT ![w] = "raised"]
    /\ wBegin' = [wBegin EXCEPT ![w] =
                     IF wpc[w] = "learning_context" THEN db ELSE @]
    /\ db' = transaction_atomic(
                 db,
                 MergeRows(db, wBegin'[w],
                           IF wpc[w] = "learning_context" THEN db ELSE wWork[w]),
                 FALSE)
    /\ UNCHANGED <<next_id, cache, seqVars, wOutline, wWork, readerVars,
                   userVars, procVars>>

\* the with block is left without an exception: commit, and the call
\* returns
WriterCommit(w) ==
    /\ wpc[w] = "commit"
    /\ db' = transaction_atomic(db, MergeRows(db, wBegin[w], wWork[w]), TRUE)
    /\ wpc' = [wpc EXCEPT ![w] = "idle"]
    /\ rSeen' = IF rpc = "idle" THEN rSeen ELSE rSeen \cup {db'}
    /\ wOutline' = [wOutline EXCEPT ![w] = {}]
    /\ wWork' = [wWork EXCEPT ![w] = EmptyDb]
    /\ wBegin' = [wBegin EXCEPT ![w] = EmptyDb]
    /\ UNCHANGED <<next_id, cache, seqVars, rpc, rCtx, rJoins, userVars, procVars>>

\* the exception reaches the caller of replace_course_outline; the call's
\* locals are gone
WriterRaise(w) ==
    /\ wpc[w] = "raised"
    /\ wpc' = [wpc EXCEPT ![w] = "idle"]
    /\ wOutline' = [wOutline EXCEPT ![w] = {}]
    /\ wWork' = [wWork EXCEPT ![w] = EmptyDb]
    /\ wBegin' = [wBegin EXCEPT ![w] = EmptyDb]
    /\ UNCHANGED <<engineVars, seqVars, readerVars, userVars, procVars>>

\* get_course_outline, lines 39-47: the context row is read and the cache
\* is asked
ReaderCall ==
    /\ rpc = "idle"
    /\ LET found == {c \in db.learning_context : c.context_key = CourseA}
           hit == UNION {get_cached_response(cache, cache_key(c)) : c \in found}
       IN  /\ rCtx' = found
           /\ rSeen' = {db}
           /\ IF found = {}
              THEN /\ result' = [course_key |-> CourseA]
                                @@ Response("DoesNotExist", {}, FALSE)
                   /\ lastOp' = "get" /\ rpc' = "idle"
              ELSE IF hit # {}
              THEN /\ result' = [course_key |-> CourseA]
                                @@ Response("ok", {e.value : e \in hit}, TRUE)
                   /\ lastOp' = "get" /\ rpc' = "idle"
              ELSE /\ result' = NoResponse
                   /\ lastOp' = "reading" /\ rpc' = "section_sequences"
    /\ rJoins' = <<>>
    /\ UNCHANGED <<engineVars, calls, lastWrite, published, omitted,
                   writerVars, userVars, procVars>>

\* line 65: the loop evaluates the section_sequence_models query
ReaderFetchSectionSequences ==
    /\ rpc = "section_sequences"
    /\ rJoins' \in section_sequence_models(db, CourseA)
    /\ rpc' = "sections"
    /\ UNCHANGED <<engineVars, seqVars, writerVars, rCtx, rSeen, userVars, procVars>>

\* lines 79-106: the loop evaluates the section_models query, the outline
\* is built, cached and returned
ReaderFetchSections ==
    /\ rpc = "sections"
    /\ \E sm \in section_models(db, CourseA) :
          LET learning_context == CHOOSE c \in rCtx : TRUE
              outline_data == OutlineFromModels(learning_context, sm, rJoins)
          IN  /\ cache' = set_all_tiers(cache, cache_key(learning_context),
                                         outline_data)
              /\ result' = [course_key |-> CourseA]
                           @@ Response("ok", {outline_data}, FALSE)
    /\ lastOp' = "get"
    /\ rpc' = "idle"
    /\ rCtx' = {} /\ rJoins' = <<>>
    /\ UNCHANGED <<db, next_id, calls, lastWrite, published, omitted,
                   writerVars, rSeen, userVars, procVars>>

NextConc ==
    \/ \E w \in Writers : WriterCall(w)
    \/ \E w \in Writers : WriterStatement(w)
    \/ \E w \in Writers : WriterFault(w)
    \/ \E w \in Writers : WriterCommit(w)
    \/ \E w \in Writers : WriterRaise(w)
    \/ ReaderCall
    \/ ReaderFetchSectionSequences
    \/ ReaderFetchSections

\* the calls of one behaviour overlap: they end long before the 300 s of a
\* cache entry are over, no entry expires
SpecConc == InitConc /\ [][NextConc]_vars

----------------------------------------------------------------------------
(* SpecCourses: the writers of SpecConc on two courses, and reads of both *)

CourseB == "course-v1:B"
TwoCourses == {CourseA, CourseB}

\* the outlines the writers publish: one of course A, one of course B
CourseOutlines ==
    {OutlineOf("V1", ShapeFull), OutlineFor(CourseB, "V2", ShapeIndexOnly)}

\* course B has an outline stored, course A has one or none
InitCourses ==
    /\ LET b == replace_course_outline(
                    EmptyDb, 1, OutlineFor(CourseB, "V1", ShapeReordered), 0)
       IN  \E r \in {b, replace_course_outline(
                            b.db, b.next_id, OutlineOf("V0", ShapeReordered), 0)} :
              db = r.db /\ next_id = r.next_id
    /\ cache = {}
    /\ calls = 0 /\ lastOp = "init" /\ result = NoResponse
    /\ lastWrite = NoWrite /\ published = {} /\ omitted = NothingOmitted
    /\ IdleConc /\ IdleUser /\ IdleProc

\* replace_course_outline is called with an outline of either course
CourseWriterCall(w) ==
    \E course_outline \in CourseOutlines :
        /\ wpc[w] = "idle"
        /\ calls < MaxConcWrites
        /\ calls' = calls + 1
        /\ wOutline' = [wOutline EXCEPT ![w] = {course_outline}]
        /\ wpc' = [wpc EXCEPT ![w] = "learning_context"]
        /\ UNCHANGED <<engineVars, lastOp, result, lastWrite, published,
                       omitted, wWork, wBegin, readerVars, userVars, procVars>>

\* get_course_outline of either course
CourseRead ==
    \E course_key \in TwoCourses :
        \E out \in get_course_outline(db, cache, course_key) :
            /\ result' = [course_key |-> course_key] @@ out.response
            /\ cache' = out.cache
            /\ lastOp' = "get"
            /\ UNCHANGED <<db, next_id, calls, lastWrite, published, omitted,
                           concVars, userVars, procVars>>

NextCourses ==
    \/ \E w \in Writers : CourseWriterCall(w)
    \/ \E w \in Writers : WriterStatement(w)
    \/ \E w \in Writers : WriterFault(w)
    \/ \E w \in Writers : WriterCommit(w)
    \/ \E w \in Writers : WriterRaise(w)
    \/ CourseRead

SpecCourses == InitCourses /\ [][NextCourses]_vars

----------------------------------------------------------------------------
(* Claims on SpecConc *)

\* the rows of a course with the surrogate section ids replaced by the
\* sections' usage keys
Canon(store, course_key) ==
    LET rows == RowsOf(store, course_key)
        KeyOf(id) == {r.usage_key : r \in {x \in rows.sections : x.id = id}}
    IN  [rows EXCEPT
            !.sections = {[r EXCEPT !.id = r.usage_key] : r \in @},
            !.section_sequences = {[j EXCEPT !.section = KeyOf(j.section)] : j \in @}]

\* C2: when a statement of replace_course_outline raises, the stored rows
\* of the course are what they were when the transaction began.
C2_AtomicOnFailure ==
    [][\A w \in Writers :
          (wpc[w] \in Range(Statements) /\ wpc'[w] = "raised") =>
              RowsOf(db', CourseA) = RowsOf(wBegin'[w], CourseA)]_vars

\* C2 witness: a transaction that had already changed rows in its own view
\* of a stored outline has raised.
C2_Witness ==
    \E w \in Writers :
        /\ wpc[w] = "raised"
        /\ db.learning_context # {}
        /\ \E c \in wWork[w].learning_context, o \in wOutline[w] :
              /\ c.published_version = o.published_version
              /\ c \notin db.learning_context
        /\ wWork[w].sections # db.sections
        /\ wWork[w].section_sequences # db.section_sequences

\* C3 (as claimed): a get_course_outline that fetches from the store while
\* writes commit returns an outline that the rows committed at some moment
\* of the call yield, never a mixture of two committed states.
C3_NoPartialOutline ==
    (lastOp = "get" /\ result.status = "ok" /\ ~result.cached) =>
        \E d \in rSeen : \E c \in d.learning_context :
            result.value \subseteq FetchOutlines(d, c)

\* C8: a commit of replace_course_outline(O) leaves the rows that
\* replace_course_outline(O), run alone on the rows committed just before,
\* leaves; the context, section and join rows are those O alone determines.
C8_SerialCommit ==
    [][\A w \in Writers :
          (wpc[w] = "commit" /\ wpc'[w] = "idle") =>
              LET o == CHOOSE x \in wOutline[w] : TRUE
                  alone == replace_course_outline(db, next_id, o, 0).db
                  fresh == replace_course_outline(EmptyDb, 1, o, 0).db
              IN  /\ Canon(db', CourseA) = Canon(alone, CourseA)
                  /\ Canon(db', CourseA).learning_context
                        = Canon(fresh, CourseA).learning_context
                  /\ Canon(db', CourseA).sections = Canon(fresh, CourseA).sections
                  /\ Canon(db', CourseA).section_sequences
                        = Canon(fresh, CourseA).section_sequences]_vars

\* C8 witness: a writer is about to commit while the other writer, called
\* with another outline, waits at its first statement.
C8_Witness ==
    \E w, v \in Writers :
        /\ w # v
        /\ wpc[w] = "commit" /\ wpc[v] = "learning_context"
        /\ wOutline[w] # wOutline[v]
        /\ db.learning_context # {}

----------------------------------------------------------------------------
(* SpecUser: get_user_course_outline on a stored outline *)

\* latest time of a call and of a start date
MaxTime == 2

Times == 0..MaxTime

\* `user` is a Django User object (including the AnonymousUser)
Users ==
    {[name |-> "staff", is_staff |-> TRUE],
     [name |-> "student", is_staff |-> FALSE],
     [name |-> "anonymous", is_staff |-> FALSE]}

\* the usage keys edx-when holds a start date for, and the start of each:
\* none, or a time
ScheduledKeys == {"course", "S1"}
StartOptions == {{}} \cup {{t} : t \in 1..MaxTime}

\* get_dates_for_course(course_key, user): any table of start dates
get_dates_for_course == [ScheduledKeys -> StartOptions]

\* from .processors import ScheduleOutlineProcessor: the api directory holds
\* a module processors.py and a package processors/, either may be the one
\* imported
Builds == {"module", "package"}

\* outlines.py line 164
has_staff_access(u) == FALSE

\* the processors registered (lines 169-174)
processor_classes == <<"schedule">>

\* Mutant of usage_keys_to_remove: every sequence of the outline is removed.
EverySequenceRemoved(name, full_course_outline) ==
    SequenceIndexKeys(full_course_outline)

\* ScheduleOutlineProcessor.usage_keys_to_remove: frozenset()
usage_keys_to_remove(name, full_course_outline) == {}

\* processor.inaccessible_usage_keys(full_course_outline): the module's
\* ScheduleOutlineProcessor returns set(); the package's class defines
\* inaccessible_sequences instead and inherits the base method, which
\* raises NotImplementedError
inaccessible_usage_keys(bld, name, full_course_outline) ==
    IF bld = "module" THEN [raised |-> FALSE, keys |-> {}]
    ELSE [raised |-> TRUE, keys |-> {}]

\* CourseOutlineData.remove: "Placeholder: not really working yet"
remove(course_outline, usage_keys) == course_outline

UserCourseOutlineData(base_outline, u, t, accessible_sequences, trimmed) ==
    [base_outline |-> base_outline, user |-> u, at_time |-> t,
     accessible_sequences |-> accessible_sequences] @@ trimmed

\* Mutant of AccessibleSequences: the intersection for the difference.
AccessibleIntersect(trimmed, inaccessible) ==
    SequenceIndexKeys(trimmed) \cap inaccessible

\* line 193: set(trimmed_course_outline.sequences) - inaccessible_usage_keys
AccessibleSequences(trimmed, inaccessible) ==
    SequenceIndexKeys(trimmed) \ inaccessible

\* the processor loop (lines 178-190) over processor_classes from position
\* i: the methods invoked (processor, method, set returned), the two sets
\* accumulated, whether a call raised
RECURSIVE RunProcessors(_, _, _, _, _)
RunProcessors(i, bld, u, full_course_outline, acc) ==
    IF i > Len(processor_classes) \/ acc.raised THEN acc
    ELSE LET name == processor_classes[i]
             loaded == [acc EXCEPT !.invoked = @ \cup {<<name, "load_data", {}>>}]
             to_remove == usage_keys_to_remove(name, full_course_outline)
             inacc == inaccessible_usage_keys(bld, name, full_course_outline)
         IN  IF has_staff_access(u)
             THEN RunProcessors(i + 1, bld, u, full_course_outline, loaded)
             ELSE RunProcessors(i + 1, bld, u, full_course_outline,
                    [invoked |-> loaded.invoked
                        \cup {<<name, "usage_keys_to_remove", to_remove>>,
                              <<name, "inaccessible_usage_keys", inacc.keys>>},
                     usage_keys_to_remove |-> acc.usage_keys_to_remove
                        \cup to_remove,
                     inaccessible_usage_keys |-> acc.inaccessible_usage_keys
                        \cup inacc.keys,
                     raised |-> inacc.raised])

\* the outcome of the call on one full outline
UserOutlineFrom(bld, u, t, full_course_outline) ==
    LET acc == RunProcessors(1, bld, u, full_course_outline,
                    [invoked |-> {}, usage_keys_to_remove |-> {},
                     inaccessible_usage_keys |-> {}, raised |-> FALSE])
        trimmed_course_outline ==
            remove(full_course_outline, acc.usage_keys_to_remove)
        accessible_sequences ==
            AccessibleSequences(trimmed_course_outline,
                                acc.inaccessible_usage_keys)
    IN  IF acc.raised
        THEN [result |-> [status |-> "NotImplementedError", value |-> {}],
              invoked |-> acc.invoked]
        ELSE [result |-> [status |-> "ok",
                          value |-> {UserCourseOutlineData(
                                        full_course_outline, u, t,
                                        accessible_sequences,
                                        trimmed_course_outline)}],
              invoked |-> acc.invoked]

\* the outcomes of get_user_course_outline(course_key, user, at_time):
\* the result, the processor methods invoked, the cache left
get_user_course_outline(store, entries, bld, course_key, u, t) ==
    UNION {
        IF out.response.status # "ok"
        THEN {[result |-> [status |-> out.response.status, value |-> {}],
               invoked |-> {}, cache |-> out.cache]}
        ELSE {UserOutlineFrom(bld, u, t, full) @@ [cache |-> out.cache]
                : full \in out.response.value}
        : out \in get_course_outline(store, entries, course_key)}

\* the outlines stored when the calls are made
UserShapes == {ShapeFull, ShapeReordered, ShapeIndexOnly}

InitUser ==
    /\ \E stored \in {{}} \cup {{OutlineOf("V1", w)} : w \in UserShapes} :
          /\ published = stored
          /\ IF stored = {} THEN db = EmptyDb /\ next_id = 1
             ELSE \E o \in stored :
                    LET r == replace_course_outline(EmptyDb, 1, o, 0)
                    IN  db = r.db /\ next_id = r.next_id
    /\ cache = {}
    /\ calls = 0 /\ lastOp = "init" /\ result = NoResponse
    /\ lastWrite = NoWrite /\ omitted = NothingOmitted
    /\ IdleConc
    /\ build \in Builds
    /\ user = {} /\ at_time = 0 /\ dates = {}
    /\ userResult = NoUserResult /\ invoked = {}
    /\ IdleProc

GetUserCourseOutline ==
    \E course_key \in CourseKeys, u \in Users, t \in Times :
      \E d \in get_dates_for_course :
        \E out \in get_user_course_outline(db, cache, build, course_key, u, t) :
            /\ user' = {u} /\ at_time' = t /\ dates' = {d}
            /\ userResult' = out.result
            /\ invoked' = out.invoked
            /\ cache' = out.cache
            /\ lastOp' = "get_user"
            /\ UNCHANGED <<db, next_id, calls, result, lastWrite, published,
                           omitted, concVars, build, procVars>>

NextUser == GetUserCourseOutline \/ CacheExpire

SpecUser == InitUser /\ [][NextUser]_vars

----------------------------------------------------------------------------
(* SpecProc: the functions of the outline processors and of the outline,  *)
(* each applied once to inputs drawn at the start                         *)

\* a section without sequences only, and no section at all
ShapeEmptySection ==
    [sections |-> <<CourseSectionData("B", "Week 2", <<>>)>>,
     sequences |-> {}, visibility |-> CourseItemVisibilityData({"B"}, {})]

ShapeNothing ==
    [sections |-> <<>>, sequences |-> {}, visibility |-> NoVisibility]

\* S1 listed under two sections
ShapeShared ==
    [sections |-> <<CourseSectionData("A", "Week 1", <<S1>>),
                    CourseSectionData("B", "Week 2", <<S1, S2>>)>>,
     sequences |-> {S1, S2},
     visibility |-> CourseItemVisibilityData({}, {"S2"})]

ProcShapes ==
    {ShapeFull, ShapeReordered, ShapeIndexOnly, ShapeShared,
     ShapeEmptySection, ShapeNothing}

\* the dates of edx-when: (usage_key, field) -> date; a field without a
\* date is the empty set. Starts vary over every key, a due date and the
\* course end are there or not.
DatedKeys == {"course", "A", "S1", "S2"}

NoDates == [start |-> {}, due |-> {}, end |-> {}]

DateTables ==
    {[k \in DatedKeys |->
        [start |-> starts[k],
         due |-> IF k = "S1" THEN due ELSE {},
         end |-> IF k = "course" THEN end ELSE {}]]
     : starts \in [DatedKeys -> StartOptions],
       due \in {{}, {MaxTime}}, end \in {{}, {MaxTime}}}

\* self.keys_to_schedule_fields[usage_key].get(field): a defaultdict(dict)
keys_to_schedule_fields(d, usage_key, field) ==
    IF usage_key \in DOMAIN d THEN d[usage_key][field] ELSE NoDates[field]

\* load_data: self._course_start
_course_start(d) == keys_to_schedule_fields(d, "course", "start")

Min(values) == CHOOSE m \in values : \A v \in values : m <= v
Max(values) == CHOOSE m \in values : \A v \in values : m >= v

\* Mutant of _effective_start: the latest of the specified dates.
LatestSpecified(optionals) ==
    LET specified_dates == UNION optionals
    IN  IF specified_dates = {} THEN {} ELSE {Max(specified_dates)}

\* ScheduleOutlineProcessor._effective_start(*dates): min of the dates
\* that are not None
_effective_start(optionals) ==
    LET specified_dates == UNION optionals
    IN  IF specified_dates = {} THEN {} ELSE {Min(specified_dates)}

\* a date d is set and at_time is before it: `d and self.at_time < d`
Before(t, optional) == \E start \in optional : t < start

\* Mutant of SequenceUnreleased: at_time equal to the start counts as
\* not yet started.
SequenceUnreleasedAtStart(d, t, usage_key) ==
    \E start \in keys_to_schedule_fields(d, usage_key, "start") : t <= start

\* Mutant of SequenceUnreleased: a sequence is closed again from its due
\* date on.
SequenceUnreleasedOrDue(d, t, usage_key) ==
    \/ Before(t, keys_to_schedule_fields(d, usage_key, "start"))
    \/ \E due \in keys_to_schedule_fields(d, usage_key, "due") : due <= t

\* lines 78-79
SequenceUnreleased(d, t, usage_key) ==
    Before(t, keys_to_schedule_fields(d, usage_key, "start"))

\* Mutant of SectionInaccessible: a section's start is not looked at.
SectionStartIgnored(d, t, section) ==
    {seq.usage_key : seq \in {x \in Range(section.sequences) :
                                 SequenceUnreleased(d, t, x.usage_key)}}

\* lines 70-80: the sequences of one section that have not started
SectionInaccessible(d, t, section) ==
    IF Before(t, keys_to_schedule_fields(d, section.usage_key, "start"))
    THEN {seq.usage_key : seq \in Range(section.sequences)}
    ELSE {seq.usage_key : seq \in {x \in Range(section.sequences) :
                                      SequenceUnreleased(d, t, x.usage_key)}}

\* ScheduleOutlineProcessor.inaccessible_sequences of processors/schedule.py.
\* Before the course start it returns full_course_outline.sequences, the
\* dict of the index itself (type "dict"); afterwards a set of usage keys.
inaccessible_sequences(d, t, full_course_outline) ==
    IF _course_start(d) = {} \/ Before(t, _course_start(d))
    THEN [type |-> "dict", keys |-> SequenceIndexKeys(full_course_outline)]
    ELSE [type |-> "set",
          keys |-> UNION {SectionInaccessible(d, t, section)
                          : section \in Range(full_course_outline.sections)}]

ScheduleItemData(usage_key, start, effective_start, due) ==
    [usage_key |-> usage_key, start |-> start,
     effective_start |-> effective_start, due |-> due]

\* schedule_data, lines 107-129: the entries of the sections from position
\* i on; a later entry of a sequence replaces an earlier one
RECURSIVE ScheduleEntries(_, _, _, _)
ScheduleEntries(d, sections, i, acc) ==
    IF i > Len(sections) THEN acc
    ELSE LET section == sections[i]
             course_start == keys_to_schedule_fields(d, "course", "start")
             section_start ==
                keys_to_schedule_fields(d, section.usage_key, "start")
             section_effective_start ==
                _effective_start({course_start, section_start})
             mine == {seq.usage_key : seq \in Range(section.sequences)}
             entries ==
                [k \in mine |->
                    ScheduleItemData(
                        k, keys_to_schedule_fields(d, k, "start"),
                        _effective_start(
                            {section_effective_start,
                             keys_to_schedule_fields(d, k, "start")}),
                        keys_to_schedule_fields(d, k, "due"))]
         IN  ScheduleEntries(d, sections, i + 1,
                [sections |->
                    (section.usage_key :>
                        ScheduleItemData(
                            section.usage_key, section_start,
                            section_effective_start,
                            keys_to_schedule_fields(d, section.usage_key, "due")))
                    @@ acc.sections,
                 sequences |-> entries @@ acc.sequences])

\* Mutant of schedule_data: an entry for every section and sequence the
\* dates name, in the pruned outline or not.
ScheduleOfEveryDate(d, pruned_course_outline) ==
    LET Item(k) == ScheduleItemData(k, keys_to_schedule_fields(d, k, "start"),
                                    keys_to_schedule_fields(d, k, "start"),
                                    keys_to_schedule_fields(d, k, "due"))
    IN  [course_start |-> keys_to_schedule_fields(d, "course", "start"),
         course_end |-> keys_to_schedule_fields(d, "course", "end"),
         sections |-> [k \in DOMAIN d \cap SectionKeys |-> Item(k)],
         sequences |-> [k \in DOMAIN d \cap SequenceKeys |-> Item(k)]]

\* ScheduleOutlineProcessor.schedule_data of processors/schedule.py
schedule_data(d, pruned_course_outline) ==
    LET entries == ScheduleEntries(d, pruned_course_outline.sections, 1,
                                   [sections |-> <<>>, sequences |-> <<>>])
    IN  [course_start |-> keys_to_schedule_fields(d, "course", "start"),
         course_end |-> keys_to_schedule_fields(d, "course", "end"),
         sections |-> entries.sections,
         sequences |-> entries.sequences]

\* VisibilityOutlineProcessor.usage_keys_to_remove: the comprehensions read
\* sec.visibility and seq.visibility, attributes that CourseSectionData and
\* LearningSequenceData do not have: AttributeError on the first item
VisibilityUsageKeysToRemove(full_course_outline) ==
    IF Len(full_course_outline.sections) > 0
       \/ full_course_outline.sequences # {}
    THEN [status |-> "AttributeError", value |-> {}]
    ELSE [status |-> "ok", value |-> {}]

\* VisibilityOutlineProcessor.inaccessible_sequences: frozenset()
VisibilityInaccessibleSequences(full_course_outline) == {}

\* the processor classes a build defines: processors.py has the schedule
\* processor (its VisiblityOutlineProcessor is an empty class), the package
\* has ScheduleOutlineProcessor and VisibilityOutlineProcessor
ProcessorsOf(bld) ==
    IF bld = "module" THEN {"schedule"} ELSE {"schedule", "visibility"}

\* processor.usage_keys_to_remove(full_course_outline) of the class named
ProcessorUsageKeysToRemove(name, full_course_outline) ==
    IF name = "visibility" THEN VisibilityUsageKeysToRemove(full_course_outline)
    ELSE [status |-> "ok",
          value |-> usage_keys_to_remove(name, full_course_outline)]

\* what the processor loop leaves when a call raises
Raised(status) ==
    [status |-> status, usage_keys_to_remove |-> {},
     inaccessible_usage_keys |-> {}]

\* the processor loop of _get_user_course_outline_and_processors (lines
\* 178-190, has_staff_access False) over any list of processor classes,
\* from position i: the two sets unioned, or the exception of the first
\* call that raises
RECURSIVE ProcessorLoop(_, _, _, _, _)
ProcessorLoop(classes, i, bld, full_course_outline, acc) ==
    IF i > Len(classes) THEN acc
    ELSE LET name == classes[i]
             to_remove == ProcessorUsageKeysToRemove(name, full_course_outline)
             inacc == inaccessible_usage_keys(bld, name, full_course_outline)
         IN  IF to_remove.status # "ok" THEN Raised(to_remove.status)
             ELSE IF inacc.raised THEN Raised("NotImplementedError")
             ELSE ProcessorLoop(classes, i + 1, bld, full_course_outline,
                    [status |-> "ok",
                     usage_keys_to_remove |->
                        acc.usage_keys_to_remove \cup to_remove.value,
                     inaccessible_usage_keys |->
                        acc.inaccessible_usage_keys \cup inacc.keys])

\* the loop over the whole list
RunProcessorClasses(classes, bld, full_course_outline) ==
    ProcessorLoop(classes, 1, bld, full_course_outline,
                  [status |-> "ok", usage_keys_to_remove |-> {},
                   inaccessible_usage_keys |-> {}])

InitProc ==
    /\ db = EmptyDb /\ next_id = 1 /\ cache = {}
    /\ calls = 0 /\ lastOp = "init" /\ result = NoResponse
    /\ lastWrite = NoWrite /\ published = {} /\ omitted = NothingOmitted
    /\ IdleConc
    /\ user = {} /\ build = "none"
    /\ userResult = NoUserResult /\ invoked = {}
    /\ \E w \in ProcShapes : procOutline = {OutlineOf("V1", w)}
    /\ \E d \in DateTables : dates = {d}
    /\ at_time \in Times
    /\ procCall = NoCall /\ procResult = NoResult

\* the function named is applied to the inputs, once
Apply(name, usage_keys, status, value) ==
    /\ procCall.name = "none"
    /\ procCall' = [name |-> name, usage_keys |-> usage_keys]
    /\ procResult' = [status |-> status, value |-> value]
    /\ UNCHANGED <<engineVars, seqVars, concVars, userVars, procOutline>>

\* full_course_outline.remove(usage_keys)
Remove ==
    \E o \in procOutline, usage_keys \in SUBSET (SectionKeys \cup SequenceKeys) :
        Apply("remove", usage_keys, "ok", remove(o, usage_keys))

\* ScheduleOutlineProcessor(course_key, user, at_time): load_data, then
\* usage_keys_to_remove(full_course_outline)
ScheduleUsageKeysToRemove ==
    \E o \in procOutline :
        Apply("schedule.usage_keys_to_remove", {}, "ok",
              usage_keys_to_remove("schedule", o))

\* load_data, then inaccessible_sequences(full_course_outline)
ScheduleInaccessibleSequences ==
    \E o \in procOutline, d \in dates :
        Apply("schedule.inaccessible_sequences", {}, "ok",
              inaccessible_sequences(d, at_time, o))

\* load_data, then schedule_data(pruned_course_outline)
ScheduleData ==
    \E o \in procOutline, d \in dates :
        Apply("schedule.schedule_data", {}, "ok", schedule_data(d, o))

\* VisibilityOutlineProcessor: usage_keys_to_remove(full_course_outline)
VisibilityRemove ==
    \E o \in procOutline :
        LET r == VisibilityUsageKeysToRemove(o)
        IN  Apply("visibility.usage_keys_to_remove", {}, r.status, r.value)

\* VisibilityOutlineProcessor: inaccessible_sequences(full_course_outline)
VisibilityInaccessible ==
    \E o \in procOutline :
        Apply("visibility.inaccessible_sequences", {}, "ok",
              VisibilityInaccessibleSequences(o))

\* the processor loop over two processor classes P, Q of one build
ProcessorsInOrder ==
    \E bld \in Builds, o \in procOutline :
      \E P \in ProcessorsOf(bld), Q \in ProcessorsOf(bld) :
        LET out == RunProcessorClasses(<<P, Q>>, bld, o)
        IN  Apply("processor_loop", {}, out.status,
                  [build |-> bld, order |-> <<P, Q>>,
                   usage_keys_to_remove |-> out.usage_keys_to_remove,
                   inaccessible_usage_keys |-> out.inaccessible_usage_keys])

NextProc ==
    \/ Remove
    \/ ScheduleUsageKeysToRemove
    \/ ScheduleInaccessibleSequences
    \/ ScheduleData
    \/ VisibilityRemove
    \/ VisibilityInaccessible
    \/ ProcessorsInOrder

SpecProc == InitProc /\ [][NextProc]_vars

----------------------------------------------------------------------------
(* SpecCall: one call of the API on a stored outline, or on an empty store *)

\* the usage keys with an entry in keys_to_schedule_fields: those the dates
\* hold a field for
Dated(d) == {k \in DOMAIN d : \E field \in DOMAIN d[k] : d[k][field] # {}}

\* ScheduleOutlineProcessor.schedule_data of processors.py (125-160): the
\* ScheduleItemData of a dated sequence or section of the pruned outline is
\* built without effective_start (TypeError); course_start and course_end
\* are bound only when the dates name the course (else UnboundLocalError)
ModuleScheduleData(d, pruned_course_outline) ==
    LET items ==
            (Dated(d) \cap SequenceKeys
                \cap SequenceIndexKeys(pruned_course_outline))
            \cup (Dated(d) \cap SectionKeys
                    \cap SectionUsageKeys(pruned_course_outline))
    IN  IF items # {} THEN [status |-> "TypeError", value |-> {}]
        ELSE IF "course" \notin Dated(d)
        THEN [status |-> "UnboundLocalError", value |-> {}]
        ELSE [status |-> "ok",
              value |-> {[course_start |-> d["course"].start,
                          course_end |-> d["course"].end,
                          sections |-> <<>>, sequences |-> <<>>]}]

\* schedule_processor.schedule_data(user_course_outline) of the build
ScheduleDataOf(bld, d, pruned_course_outline) ==
    IF bld = "module" THEN ModuleScheduleData(d, pruned_course_outline)
    ELSE [status |-> "ok", value |-> {schedule_data(d, pruned_course_outline)}]

UserCourseOutlineDetailsData(outline, schedule) ==
    [outline |-> outline, schedule |-> schedule]

\* the outcomes of get_user_course_outline_details(course_key, user,
\* at_time) with the dates d: the result, the processor methods the outline
\* step invoked, the cache left
get_user_course_outline_details(store, entries, bld, course_key, u, t, d) ==
    UNION {
        IF out.result.status # "ok" THEN {out}
        ELSE {[result |->
                  LET sched == ScheduleDataOf(bld, d, user_course_outline)
                  IN  [status |-> sched.status,
                       value |-> {UserCourseOutlineDetailsData(
                                     user_course_outline, schedule)
                                  : schedule \in sched.value}],
               invoked |-> out.invoked, cache |-> out.cache]
              : user_course_outline \in out.result.value}
        : out \in get_user_course_outline(store, entries, bld, course_key, u, t)}

\* the outlines of the one write: another content for course A, and an
\* outline with a deprecated course key
CallOutlines ==
    {OutlineOf("V2", ShapeShort), OutlineFor(OldMongo, "V2", ShapeShort)}

\* the argument of the call, without a get_course_outline response
CalledWith(course_key) ==
    [course_key |-> course_key] @@ Response("none", {}, FALSE)

\* an outline stored or not, its cache entry there or not
InitCall ==
    /\ \E stored \in {{}} \cup {{OutlineOf("V1", w)} : w \in UserShapes} :
          /\ published = stored
          /\ IF stored = {} THEN db = EmptyDb /\ next_id = 1
             ELSE \E o \in stored :
                    LET r == replace_course_outline(EmptyDb, 1, o, 0)
                    IN  db = r.db /\ next_id = r.next_id
    /\ cache \in {{}} \cup {out.cache : out \in get_course_outline(db, {}, CourseA)}
    /\ calls = 0 /\ lastOp = "init" /\ result = NoResponse
    /\ lastWrite = NoWrite /\ omitted = NothingOmitted
    /\ IdleConc
    /\ build \in Builds
    /\ user = {} /\ at_time = 0 /\ dates = {}
    /\ userResult = NoUserResult /\ invoked = {}
    /\ IdleProc

CallGetCourseOutline == lastOp = "init" /\ GetCourseOutline

CallReplaceCourseOutline ==
    /\ lastOp = "init"
    /\ \E course_outline \in CallOutlines, fault \in Faults :
          LET r == replace_course_outline(db, next_id, course_outline, fault)
          IN  /\ db' = r.db
              /\ next_id' = r.next_id
              /\ lastWrite' = [outline |-> {course_outline},
                               status |-> r.status, repeated |-> FALSE]
              /\ published' = IF r.status = "ok" THEN {course_outline}
                              ELSE published
              /\ omitted' = IF r.status = "ok"
                            THEN OmittedBy(published, course_outline)
                            ELSE omitted
              /\ result' = CalledWith(course_outline.course_key)
    /\ calls' = calls + 1
    /\ lastOp' = "replace"
    /\ UNCHANGED <<cache, concVars, userVars, procVars>>

CallGetUserCourseOutline ==
    /\ lastOp = "init"
    /\ \E course_key \in CourseKeys, u \in Users, t \in Times :
        \E d \in get_dates_for_course :
          \E out \in get_user_course_outline(db, cache, build, course_key, u, t) :
            /\ user' = {u} /\ at_time' = t /\ dates' = {d}
            /\ userResult' = out.result
            /\ invoked' = out.invoked
            /\ cache' = out.cache
            /\ result' = CalledWith(course_key)
    /\ lastOp' = "get_user"
    /\ UNCHANGED <<db, next_id, calls, lastWrite, published, omitted,
                   concVars, build, procVars>>

CallGetUserCourseOutlineDetails ==
    /\ lastOp = "init"
    /\ \E course_key \in CourseKeys, u \in Users, t \in Times :
        \E d \in DateTables :
          \E out \in get_user_course_outline_details(db, cache, build, course_key, u, t, d) :
            /\ user' = {u} /\ at_time' = t /\ dates' = {d}
            /\ userResult' = out.result
            /\ invoked' = out.invoked
            /\ cache' = out.cache
            /\ result' = CalledWith(course_key)
    /\ lastOp' = "get_user_details"
    /\ UNCHANGED <<db, next_id, calls, lastWrite, published, omitted,
                   concVars, build, procVars>>

NextCall ==
    \/ CallGetCourseOutline
    \/ CallReplaceCourseOutline
    \/ CallGetUserCourseOutline
    \/ CallGetUserCourseOutlineDetails

SpecCall == InitCall /\ [][NextCall]_vars

----------------------------------------------------------------------------
(* Claims on SpecUser *)

\* the keys flagged in the visibility sets of an outline
Flagged(outline) ==
    outline.visibility.hide_from_toc
        \cup outline.visibility.visible_to_staff_only

\* C9: for a staff identity the outline returned has the sections and the
\* sequences of the full outline, accessible_sequences holds every sequence
\* key of it, and no processor's usage_keys_to_remove or inaccessibility
\* method was called.
C9_StaffBypass ==
    \A u \in user :
        (u.is_staff /\ userResult.status \notin {"none", "DoesNotExist", "ValueError"}) =>
            /\ userResult.status = "ok"
            /\ \A o \in userResult.value :
                  /\ o.sections = o.base_outline.sections
                  /\ o.sequences = o.base_outline.sequences
                  /\ o.accessible_sequences = SequenceIndexKeys(o.base_outline)
            /\ \A c \in invoked : c[2] = "load_data"

\* C10: for a non-staff identity the outline returned holds, in its sections
\* and in its sequences index, no section or sequence flagged hide_from_toc
\* or visible_to_staff_only in the full outline, and no sequence of a
\* flagged section.
C10_HiddenNeverReachNonStaff ==
    \A u \in user, o \in userResult.value :
        (~u.is_staff /\ userResult.status = "ok") =>
            LET hidden == Flagged(o.base_outline)
                inside == UNION {{q.usage_key : q \in Range(sec.sequences)}
                                 : sec \in {x \in Range(o.base_outline.sections)
                                               : x.usage_key \in hidden}}
            IN  /\ SectionUsageKeys(o) \cap hidden = {}
                /\ SequenceIndexKeys(o) \cap (hidden \cup inside) = {}
                /\ ListedSequenceKeys(o) \cap (hidden \cup inside) = {}

\* C11: for a non-staff identity, when the course has started at at_time,
\* a sequence of the outline returned whose start is later than at_time is
\* in sequences but not in accessible_sequences, and a sequence whose start
\* is not later than at_time is in accessible_sequences.
C11_VisibleButInaccessible ==
    \A u \in user, d \in dates, o \in userResult.value :
        (/\ ~u.is_staff /\ userResult.status = "ok"
         /\ \E c \in d["course"] : c <= at_time
         /\ "S1" \in SequenceIndexKeys(o)) =>
            /\ (\E s \in d["S1"] : at_time < s) =>
                    "S1" \notin o.accessible_sequences
            /\ (\E s \in d["S1"] : at_time >= s) =>
                    "S1" \in o.accessible_sequences

\* the sets that the calls of a method made on the processors returned
Returned(method) == UNION {c[3] : c \in {x \in invoked : x[2] = method}}

\* C13: accessible_sequences of the outline returned is the key set of the
\* trimmed outline's sequences minus the union of the processors'
\* inaccessibility sets, and so a subset of the outline's sequence keys.
C13_AccessibleIsDifference ==
    \A o \in userResult.value :
        userResult.status = "ok" =>
            /\ o.accessible_sequences =
                  SequenceIndexKeys(remove(o.base_outline,
                                           Returned("usage_keys_to_remove")))
                  \ Returned("inaccessible_usage_keys")
            /\ o.accessible_sequences \subseteq SequenceIndexKeys(o)

\* C13 witness: a student got an outline of two sequences after the
\* schedule processor was asked for its inaccessibility set.
C13_Witness ==
    /\ userResult.status = "ok"
    /\ \E u \in user : ~u.is_staff
    /\ \E c \in invoked : c[2] = "inaccessible_usage_keys"
    /\ \E o \in userResult.value :
          /\ Cardinality(SequenceIndexKeys(o)) = 2
          /\ o.accessible_sequences = SequenceIndexKeys(o)

----------------------------------------------------------------------------
(* Claims on SpecProc *)

\* the usage keys that remove(usage_keys) is to take out of an outline: the
\* keys named and the sequences of the sections named
GoneWith(outline, usage_keys) ==
    usage_keys \cup
    UNION {{q.usage_key : q \in Range(sec.sequences)}
           : sec \in {x \in Range(outline.sections) : x.usage_key \in usage_keys}}

\* C12: remove(K) returns the outline without the sections named in K and
\* without their sequences, without the sequences named in K in the section
\* lists and in the flat index, and with everything else in its order.
C12_RemoveTrims ==
    procCall.name = "remove" =>
        \A o \in procOutline :
            LET gone == GoneWith(o, procCall.usage_keys)
                Kept(x) == x.usage_key \notin gone
                kept_sections == SelectSeq(o.sections, Kept)
            IN  /\ procResult.value.sections =
                      [i \in 1..Len(kept_sections) |->
                          [kept_sections[i] EXCEPT
                              !.sequences = SelectSeq(@, Kept)]]
                /\ procResult.value.sequences =
                      {q \in o.sequences : Kept(q)}

\* the course has started at at_time under the dates d
CourseStarted(d) == \E start \in _course_start(d) : at_time >= start

\* inaccessible_sequences has been applied to the inputs
InaccessibleApplied == procCall.name = "schedule.inaccessible_sequences"

\* C14: when the course start is unset or at_time is before it, the
\* schedule processor's inaccessible set is the set of all sequence keys of
\* the full outline's flat index.
C14_UnreleasedCourse ==
    \A o \in procOutline, d \in dates :
        (InaccessibleApplied /\ ~CourseStarted(d)) =>
            procResult.value = [type |-> "set", keys |-> SequenceIndexKeys(o)]

\* C15: when the course has started, every sequence listed under a section
\* whose own start is later than at_time is in the schedule processor's
\* inaccessible set.
C15_UnreleasedSection ==
    \A o \in procOutline, d \in dates :
        (InaccessibleApplied /\ CourseStarted(d)) =>
            \A i \in 1..Len(o.sections) :
                Before(at_time, keys_to_schedule_fields(d, o.sections[i].usage_key, "start")) =>
                    \A q \in Range(o.sections[i].sequences) :
                        q.usage_key \in procResult.value.keys

\* C15 witness: the course has started, section A has not, and S1 under A,
\* whose own start has passed, is in the set returned.
C15_Witness ==
    /\ InaccessibleApplied
    /\ \E o \in procOutline, d \in dates :
          /\ CourseStarted(d)
          /\ Before(at_time, d["A"].start)
          /\ \E start \in d["S1"].start : at_time >= start
          /\ \E sec \in Range(o.sections) :
                sec.usage_key = "A" /\ S1 \in Range(sec.sequences)
          /\ "S1" \in procResult.value.keys

\* the sections of an outline that list the sequence
SectionsListing(outline, usage_key) ==
    {sec \in Range(outline.sections) :
        \E q \in Range(sec.sequences) : q.usage_key = usage_key}

\* C16: when the course has started, a sequence listed under sections that
\* all have no start or a start not after at_time is in the schedule
\* processor's inaccessible set if and only if it has a start and at_time is
\* strictly earlier than it.
C16_PerSequenceRelease ==
    \A o \in procOutline, d \in dates :
        (InaccessibleApplied /\ CourseStarted(d)) =>
            \A k \in ListedSequenceKeys(o) :
                (\A sec \in SectionsListing(o, k) :
                    ~Before(at_time, keys_to_schedule_fields(d, sec.usage_key, "start"))) =>
                    (k \in procResult.value.keys
                        <=> \E start \in keys_to_schedule_fields(d, k, "start") :
                                at_time < start)

\* C16 witness: under a started section, S1 starts exactly at at_time and is
\* not in the set returned, S2 starts later and is in it.
C16_Witness ==
    /\ InaccessibleApplied
    /\ \E o \in procOutline, d \in dates :
          /\ CourseStarted(d)
          /\ {"S1", "S2"} \subseteq ListedSequenceKeys(o)
          /\ \A sec \in Range(o.sections) :
                ~Before(at_time, keys_to_schedule_fields(d, sec.usage_key, "start"))
          /\ d["S1"].start = {at_time}
          /\ Before(at_time, d["S2"].start)
          /\ procResult.value.keys = {"S2"}

\* schedule_data has been applied to the inputs
ScheduleDataApplied == procCall.name = "schedule.schedule_data"

\* optional is the earliest of the dates that are set in optionals, and
\* unset exactly when none of them is set
EarliestOf(optional, optionals) ==
    LET defined == UNION optionals
    IN  IF defined = {} THEN optional = {}
        ELSE \E m \in defined : optional = {m} /\ \A v \in defined : m <= v

C18_EarlierAncestorDoesNotBind ==
    \A o \in procOutline, d \in dates :
        ScheduleDataApplied =>
            \A k \in ListedSequenceKeys(o) :
                \A c \in d["course"].start, own \in keys_to_schedule_fields(d, k, "start") :
                    (/\ c < own
                     /\ \A sec \in SectionsListing(o, k) :
                           keys_to_schedule_fields(d, sec.usage_key, "start") = {}) =>
                        procResult.value.sequences[k].effective_start = {own}

\* C19: the visibility processor's usage_keys_to_remove returns the section
\* and sequence usage keys of the full outline that are in its hide_from_toc
\* set or in its visible_to_staff_only set, and its inaccessible set is
\* empty.
C19_VisibilityRemovesFlagged ==
    \A o \in procOutline :
        /\ procCall.name = "visibility.usage_keys_to_remove" =>
              /\ procResult.status = "ok"
              /\ procResult.value =
                    (SectionUsageKeys(o) \cup SequenceIndexKeys(o)) \cap Flagged(o)
        /\ procCall.name = "visibility.inaccessible_sequences" =>
              procResult.value = {}

\* C20: the schedule processor's usage_keys_to_remove is the empty set for
\* every full outline, every date table and every at_time.
C20_DatesNeverHide ==
    procCall.name = "schedule.usage_keys_to_remove" => procResult.value = {}

\* C20 witness: asked before the course start, with a sequence that has not
\* started and has a due date, about an outline of two sequences.
C20_Witness ==
    /\ procCall.name = "schedule.usage_keys_to_remove"
    /\ procResult.status = "ok"
    /\ \E o \in procOutline, d \in dates :
          /\ Cardinality(SequenceIndexKeys(o)) = 2
          /\ ~CourseStarted(d) /\ d["course"].end # {}
          /\ Before(at_time, d["S1"].start) /\ d["S1"].due # {}


C22_ScheduleOverPruned ==
    ScheduleDataApplied =>
        \A o \in procOutline :
            /\ DOMAIN procResult.value.sections \subseteq SectionUsageKeys(o)
            /\ DOMAIN procResult.value.sequences \subseteq SequenceIndexKeys(o)

\* C22 witness: the dates hold a start for section A and for sequence S1,
\* the pruned outline has neither, and the schedule returned has the entry
\* of its section B only.
C22_Witness ==
    /\ ScheduleDataApplied
    /\ \A d \in dates : d["A"].start # {} /\ d["S1"].start # {}
    /\ \A o \in procOutline :
          /\ "A" \notin SectionUsageKeys(o)
          /\ "S1" \notin SequenceIndexKeys(o)
    /\ DOMAIN procResult.value.sections = {"B"}
    /\ DOMAIN procResult.value.sequences = {}

----------------------------------------------------------------------------
(* Claims on Spec: what a read returns of the outline written *)

\* C23 (as claimed): a section of O without sequences is, after
\* replace_course_outline(O), in the outline get_course_outline returns, at
\* the position it has in O and with an empty sequence list.
C23_EmptySectionsSurvive ==
    (lastOp = "get" /\ result.status = "ok") =>
        \A o \in published, r \in result.value :
            \A i \in 1..Len(o.sections) :
                o.sections[i].sequences = <<>> =>
                    /\ i <= Len(r.sections)
                    /\ r.sections[i].usage_key = o.sections[i].usage_key
                    /\ r.sections[i].sequences = <<>>

\* C27 (as claimed): in the outline a get_course_outline builds from the
\* rows replace_course_outline(O) stored, each section lists its sequences
\* in the order O lists them.
C27_SequenceOrderKept ==
    (lastOp = "get" /\ result.status = "ok" /\ ~result.cached) =>
        \A o \in published, r \in result.value :
            \A s \in Range(o.sections), x \in Range(r.sections) :
                x.usage_key = s.usage_key => x.sequences = s.sequences

\* the usage keys of an outline's sections, in their order
SectionOrder(outline) ==
    [i \in 1..Len(outline.sections) |-> outline.sections[i].usage_key]

\* C28 (as claimed): after replace_course_outline(O), get_course_outline
\* returns the sections in the order of O.sections, also when O reorders
\* sections that were stored before.
C28_SectionOrderKept ==
    (lastOp = "get" /\ result.status = "ok") =>
        \A o \in published, r \in result.value :
            SectionOrder(r) = SectionOrder(o)

\* C29: in every outline get_course_outline returns, after any writes, each
\* sequence listed in a section is in the sequences index with the same
\* usage key and title.
C29_ListedAreIndexed ==
    (lastOp = "get" /\ result.status = "ok") =>
        \A r \in result.value :
            \A s \in Range(r.sections) :
                \A q \in Range(s.sequences) : q \in r.sequences

\* C29 witness: after three writes a read returned an outline that lists a
\* sequence flagged visible_to_staff_only in a section.
C29_Witness ==
    /\ lastOp = "get" /\ result.status = "ok" /\ calls = MaxWrites
    /\ \E r \in result.value :
          ListedSequenceKeys(r) \cap r.visibility.visible_to_staff_only # {}

\* C30: after a successful replace_course_outline(O) every LearningSequence
\* row of the course has a usage key of O's sequences index (rows of
\* earlier writes with other keys are gone), and every sequence listed in a
\* section of O has a row with the title O gives it.
C30_StaleSequencesGone ==
    (lastOp = "replace" /\ lastWrite.status = "ok") =>
        \A o \in lastWrite.outline :
            LET rows == RowsOf(db, o.course_key).sequences
            IN  /\ \A q \in rows : q.usage_key \in SequenceIndexKeys(o)
                /\ \A s \in Range(o.sections) :
                      \A x \in Range(s.sequences) :
                          \E q \in rows : /\ q.usage_key = x.usage_key
                                          /\ q.title = x.title

\* C30 witness: the write of O succeeded on rows of an earlier write that
\* had a section with sequence S2, O has neither, S1 is listed in O and no
\* row of S2 is left.
C30_Witness ==
    /\ lastOp = "replace" /\ lastWrite.status = "ok"
    /\ "S2" \in omitted.sequences
    /\ \A o \in lastWrite.outline : "S1" \in ListedSequenceKeys(o)
    /\ \A q \in db.sequences : q.usage_key # "S2"


\* the status and the value the last call returned
Outcome ==
    IF lastOp = "get" THEN [status |-> result.status, value |-> result.value]
    ELSE IF lastOp = "replace"
    THEN [status |-> lastWrite.status, value |-> {}]
    ELSE [status |-> userResult.status, value |-> userResult.value]

\* C24: get_course_outline, get_user_course_outline and
\* get_user_course_outline_details, called with a course key that is not
\* deprecated and has no LearningContext row, fail with
\* CourseOutlineData.DoesNotExist, return no outline and leave the cache
\* and the stored rows as they were.
C24_OutlineNotFound ==
    [][(/\ lastOp = "init"
        /\ lastOp' \in {"get", "get_user", "get_user_details"}
        /\ ~deprecated(result'.course_key)
        /\ \A c \in db.learning_context : c.context_key # result'.course_key)
       => /\ Outcome'.status = "DoesNotExist"
          /\ Outcome'.value = {}
          /\ cache' = cache
          /\ db' = db]_vars

\* C24 witness: get_user_course_outline_details was called for course A on
\* a store without rows and ended in DoesNotExist.
C24_Witness ==
    /\ lastOp = "get_user_details"
    /\ result.course_key = CourseA
    /\ db.learning_context = {}
    /\ userResult.status = "DoesNotExist"

\* C25: get_course_outline called with a deprecated course key, and
\* replace_course_outline called with an outline of a deprecated course
\* key, fail with ValueError (the error of an invalid key) whatever the
\* store and the cache hold, and leave both as they were.
C25_DeprecatedRejected ==
    [][(/\ lastOp = "init"
        /\ lastOp' \in {"get", "replace"}
        /\ deprecated(result'.course_key))
       => /\ Outcome'.status = "ValueError"
          /\ Outcome'.value = {}
          /\ cache' = cache
          /\ db' = db /\ next_id' = next_id]_vars

\* C25 witness: replace_course_outline was called with an outline of the
\* deprecated key on a stored and cached outline and ended in ValueError.
C25_Witness ==
    /\ lastOp = "replace"
    /\ deprecated(result.course_key)
    /\ lastWrite.status = "ValueError"
    /\ db.sections # {} /\ cache # {}

----------------------------------------------------------------------------
(* Claims on SpecCourses *)

\* the course of the call writer w is in, before or after the step
CourseOf(w) == {o.course_key : o \in wOutline[w] \cup wOutline'[w]}

\* C26: no step of a replace_course_outline for one course (a statement, a
\* commit, a rollback), alone or while a write to another course is under
\* way, changes a row of another course or what get_course_outline returns
\* for another course.
C26_DistinctCoursesApart ==
    [][\A w \in Writers :
          wpc'[w] # wpc[w] =>
              \A k \in TwoCourses \ CourseOf(w) :
                  /\ RowsOf(db', k) = RowsOf(db, k)
                  /\ get_course_outline(db', cache', k)
                        = get_course_outline(db, cache, k)]_vars

\* C26 witness: a write to course A is about to commit changed rows while
\* a write to course B is inside its transaction, both courses having rows
\* stored and course B a cached outline.
C26_Witness ==
    \E w, v \in Writers :
        /\ wpc[w] = "commit" /\ wpc[v] \in InTransaction
        /\ \A o \in wOutline[w] : o.course_key = CourseA
        /\ \A o \in wOutline[v] : o.course_key = CourseB
        /\ RowsOf(wWork[w], CourseA) # RowsOf(db, CourseA)
        /\ RowsOf(db, CourseA).sections # {}
        /\ RowsOf(db, CourseB).section_sequences # {}
        /\ \E e \in cache : e.key[1] = CourseB

----------------------------------------------------------------------------
(* Claims on SpecProc: release dates *)

\* C31 (as claimed): in the Schedule returned, when a section's
\* effective_start is defined, the effective_start of each sequence listed
\* in that section is defined and not earlier, and the section's
\* effective_start is not earlier than a defined course start.
C31_ChildNotBeforeParent ==
    \A o \in procOutline, d \in dates :
        ScheduleDataApplied =>
            \A sec \in Range(o.sections) :
                \A from \in procResult.value.sections[sec.usage_key].effective_start :
                    /\ \A c \in d["course"].start : c <= from
                    /\ \A q \in Range(sec.sequences) :
                          \E own \in procResult.value.sequences[q.usage_key].effective_start :
                              from <= own

\* C32 (as claimed): for a course with a start date, a sequence listed in
\* the outline is outside the set inaccessible_sequences returns at at_time
\* exactly when the effective_start schedule_data reports for it is defined
\* and at_time is not earlier than it.
C32_EffectiveStartIsRelease ==
    \A o \in procOutline, d \in dates :
        (InaccessibleApplied /\ d["course"].start # {}) =>
            \A k \in ListedSequenceKeys(o) :
                k \notin procResult.value.keys
                    <=> \E from \in schedule_data(d, o).sequences[k].effective_start :
                            from <= at_time

----------------------------------------------------------------------------
(* Claims on Spec: a write that cannot finish *)

\* some section lists a sequence that the flat sequences index does not hold
IndexBroken(outline) ==
    \E k \in ListedSequenceKeys(outline) : k \notin SequenceIndexKeys(outline)

\* C33: replace_course_outline of an outline, one section of which lists a
\* sequence that is no key of the outline's sequences index, raises, and the
\* store holds after the call exactly the rows it held before it, the join
\* rows included.
C33_BrokenIndexRollsBack ==
    [][(/\ lastOp' = "replace"
        /\ calls' = calls + 1
        /\ \E o \in lastWrite'.outline : IndexBroken(o))
            => /\ lastWrite'.status # "ok"
               /\ db' = db]_vars

\* a stored outline with join rows has survived a write that raised KeyError
\* on a listed sequence missing from the index
C33_Witness ==
    /\ lastOp = "replace"
    /\ lastWrite.status = "KeyError"
    /\ \E o \in lastWrite.outline : IndexBroken(o)
    /\ published # {}
    /\ db.section_sequences # {}
    /\ db.sequences # {}

----------------------------------------------------------------------------
(* Claims on Spec: sequences held by the index alone *)

\* the sequences an outline holds in its index and lists in no section
IndexOnlyKeys(outline) ==
    SequenceIndexKeys(outline) \ ListedSequenceKeys(outline)

\* C34 (as claimed): the sequences index of an outline get_course_outline
\* returns holds exactly the sequences its sections list, and a sequence that
\* O holds in its index alone is, in the outline read after
\* replace_course_outline(O), neither in the index nor in a visibility set.
C34_IndexOnlyDropped ==
    (lastOp = "get" /\ result.status = "ok") =>
        \A r \in result.value :
            /\ SequenceIndexKeys(r) = ListedSequenceKeys(r)
            /\ \A o \in published :
                  \A k \in IndexOnlyKeys(o) :
                      /\ k \notin SequenceIndexKeys(r)
                      /\ k \notin r.visibility.hide_from_toc
                      /\ k \notin r.visibility.visible_to_staff_only

\* C35: for one full outline and one table of dates, a sequence that is
\* outside the set inaccessible_sequences returns at at_time is outside the
\* set it returns at every later at_time.
C35_ReleaseMonotone ==
    \A o \in procOutline, d \in dates :
        InaccessibleApplied =>
            \A k \in SequenceIndexKeys(o) \cup ListedSequenceKeys(o) :
                k \notin procResult.value.keys =>
                    \A later \in Times :
                        later > at_time =>
                            k \notin inaccessible_sequences(d, later, o).keys

\* a sequence with a due date is released at at_time, having been
\* unreleased at the time before, and a later time exists
C35_Witness ==
    /\ InaccessibleApplied
    /\ 0 < at_time /\ at_time < MaxTime
    /\ \A o \in procOutline, d \in dates :
          \E k \in ListedSequenceKeys(o) :
              /\ k \notin procResult.value.keys
              /\ k \in inaccessible_sequences(d, at_time - 1, o).keys
              /\ keys_to_schedule_fields(d, k, "due") # {}
              /\ keys_to_schedule_fields(d, k, "start") = {at_time}

----------------------------------------------------------------------------
(* Claims on SpecConc: what the cache holds *)

\* the outlines that can be committed for course A: the stored one of
\* InitConc and those the writers publish
CommittedOutlines == {OutlineOf("V0", ShapeReordered)} \cup ConcOutlines

\* the outlines get_course_outline builds from the rows that
\* replace_course_outline(course_outline) commits
ReadBackOf(course_outline) ==
    LET r == replace_course_outline(EmptyDb, 1, course_outline, 0)
    IN  UNION {FetchOutlines(r.db, c) : c \in r.db.learning_context}

\* C36 (as claimed): while get_course_outline and replace_course_outline of
\* one course interleave, every cache entry under the key of (course_key,
\* published_version V) holds an outline built from the rows committed with
\* version V.
C36_CacheNotPoisoned ==
    \A e \in cache :
        \E o \in CommittedOutlines :
            /\ e.key = <<o.course_key, o.published_version>>
            /\ e.value \in ReadBackOf(o)

============================================================================
